---- MODULE Spec2Model ----
\* A model of log.h (simple-log): the global configuration L, the internal
\* mutex global_log_mutex, the five setters and log_log, stepped statement by
\* statement so that threads and setters interleave as they can in the code.
EXTENDS Integers, Sequences, FiniteSets, TLC

\* ---------------------------------------------------------------- bounds
NumThreads == 2        \* threads that call the logger, each of them once
MaxSets == 1           \* setter calls made in one behaviour
MoreSets == 2          \* further setter calls in a behaviour in which not
                       \* every thread calls the logger

Threads == 1..NumThreads

\* ------------------------------------------------------- program constants
LOG_TRACE == 0
LOG_DEBUG == 1
LOG_INFO == 2
LOG_WARN == 3
LOG_ERROR == 4
LOG_FATAL == 5

Levels == LOG_TRACE..LOG_FATAL
\* The thresholds a caller installs in this model.
ThresholdInputs == {LOG_WARN, LOG_FATAL}

\* level_names[], indexed from 0 in the code and from 1 here.
level_names == <<"TRACE", "DEBUG", "INFO", "WARN", "ERROR", "FATAL">>

\* Values of the pointer fields: 0 is the null pointer.
NULL == 0
Hooks == {1}           \* lock callbacks a caller may install
UDatas == {1}          \* user data pointers a caller may install
Handles == {1, 2}      \* FILE* handles a caller may install

\* "%s" in place of "%-5s": the name as it is.
PadRight_NoPadding(s, w) == s

\* printf's "%-5s": left-justified, padded with blanks to 5, never truncated.
RECURSIVE PadRight(_, _)
PadRight(s, w) == IF Len(s) >= w THEN s ELSE PadRight(s \o " ", w)

\* The clock: one tick is one second; the high-resolution clock counts
\* nanoseconds of the same time line.
NsPerTick == 1000000000
HighResNow(n) == n * NsPerTick
\* "%.6lf" of count()/1e9 (console) and of count()/1000000000.0 (file):
\* whole seconds and six decimals.
TsConsole(ns) == <<ns \div 1000000000, (ns % 1000000000) \div 1000>>
TsFile(ns) == <<ns \div 1000000000, (ns % 1000000000) \div 1000>>

\* strftime "%H:%M:%S" and "%Y-%m-%d" of a time in seconds; the date is the
\* day number.
HMS(s) == <<(s \div 3600) % 24, (s \div 60) % 60, s % 60>>
YMD(s) == s \div 86400
NoDate == -1

\* ------------------------------------------------------------------ state
VARIABLES
    L,          \* the configuration struct
    mutex,      \* global_log_mutex: 0 when free, else the owning thread
    pc,         \* each thread's position in log_log
    loc,        \* each thread's locals in log_log
    now,        \* the clock
    console,    \* what was written to stderr, write by write
    file,       \* what was written to each FILE*, write by write
    flushed,    \* per FILE*: how many of its writes have been flushed
    hist,       \* what each call read of L and did, in order, tagged by call
    calls,      \* every call of log_log so far: its arguments and check
    nsets,      \* setter calls so far
    asked,      \* per field of L, the argument of the last call of its setter
    crashed     \* the process dereferenced a null pointer

vars == <<L, mutex, pc, loc, now, console, file, flushed, hist, calls, nsets,
          asked, crashed>>

NoLocals == [c |-> 0, level |-> 0, file |-> 0, line |-> 0, clock_now |-> 0,
             t |-> 0, fp |-> NULL, lock |-> NULL]

\* The initial state with quiet on.
Init_QuietOn ==
    /\ L = [udata |-> NULL, lock |-> NULL, fp |-> NULL, level |-> 0, quiet |-> 1]
    /\ mutex = 0
    /\ pc = [t \in Threads |-> "idle"]
    /\ loc = [t \in Threads |-> NoLocals]
    /\ now = 0
    /\ console = << >>
    /\ file = [h \in Handles |-> << >>]
    /\ flushed = [h \in Handles |-> 0]
    /\ hist = << >>
    /\ calls = << >>
    /\ nsets = 0
    /\ asked = [udata |-> NULL, lock |-> NULL, fp |-> NULL, level |-> 0, quiet |-> 0]
    /\ crashed = FALSE

\* static struct L is zero-initialised; nothing has been written.
Init ==
    /\ L = [udata |-> NULL, lock |-> NULL, fp |-> NULL, level |-> 0, quiet |-> 0]
    /\ mutex = 0
    /\ pc = [t \in Threads |-> "idle"]
    /\ loc = [t \in Threads |-> NoLocals]
    /\ now = 0
    /\ console = << >>
    /\ file = [h \in Handles |-> << >>]
    /\ flushed = [h \in Handles |-> 0]
    /\ hist = << >>
    /\ calls = << >>
    /\ nsets = 0
    /\ asked = [udata |-> NULL, lock |-> NULL, fp |-> NULL, level |-> 0, quiet |-> 0]
    /\ crashed = FALSE

Ev(c, op, arg) == [c |-> c, op |-> op, arg |-> arg]

\* A log_log call is between its entry and its return.
InFlight == \E t \in Threads : pc[t] # "idle"

\* The behaviours explored: c calls of log_log and s setter calls, made at
\* any time, also while a call of log_log runs.
WithinBounds(c, s) ==
    c <= NumThreads /\ s <= MaxSets + (IF c < NumThreads THEN MoreSets ELSE 0)

\* ---------------------------------------------------------------- setters
log_set_udata(udata) ==
    L' = [L EXCEPT !.udata = udata]

\* log_set_lock that also forgets the user data.
log_set_lock_ResetsUdata(fn) ==
    L' = [L EXCEPT !.lock = fn, !.udata = NULL]

log_set_lock(fn) ==
    L' = [L EXCEPT !.lock = fn]

log_set_fp(fp) ==
    L' = [L EXCEPT !.fp = fp]

log_set_level(level) ==
    L' = [L EXCEPT !.level = level]

log_set_quiet(enable) ==
    L' = [L EXCEPT !.quiet = IF enable # 0 THEN 1 ELSE 0]

\* What a setter leaves alone: everything but L.
SetterFrame ==
    /\ ~crashed
    /\ nsets' = nsets + 1
    /\ WithinBounds(Len(calls), nsets')
    /\ UNCHANGED <<mutex, pc, loc, now, console, file, flushed, hist, calls, crashed>>

SetUdata ==
    \E u \in UDatas :
        SetterFrame /\ log_set_udata(u) /\ asked' = [asked EXCEPT !.udata = u]
SetLock ==
    \E f \in Hooks \cup {NULL} :
        SetterFrame /\ log_set_lock(f) /\ asked' = [asked EXCEPT !.lock = f]
SetFp ==
    \E h \in Handles \cup {NULL} :
        SetterFrame /\ log_set_fp(h) /\ asked' = [asked EXCEPT !.fp = h]
SetLevel ==
    \E l \in ThresholdInputs :
        SetterFrame /\ log_set_level(l) /\ asked' = [asked EXCEPT !.level = l]
SetQuiet ==
    \E e \in {0, 1, 2} :
        SetterFrame /\ log_set_quiet(e) /\ asked' = [asked EXCEPT !.quiet = e]

\* ---------------------------------------------------------------- log_log
\* The early exit, off by one: a call one level below the threshold goes on.
BelowThreshold_OffByOne(level) == level + 1 < L.level

\* if (level < L.level) return;
BelowThreshold(level) == level < L.level

\* Each thread calls the logger once (two calls of one thread are two calls
\* of two threads that do not overlap). Threads are interchangeable: they are
\* numbered in the order of their calls.
MayStart(t) == t = Len(calls) + 1

\* Entry of log_log: the call is recorded with its arguments and the
\* threshold it read. fmt and args are received and never read again.
log_log(t, level, srcfile, line, fmt, args) ==
    /\ ~crashed
    /\ pc[t] = "idle"
    /\ MayStart(t)
    /\ WithinBounds(Len(calls) + 1, nsets)
    /\ calls' = Append(calls, [t |-> t, level |-> level, file |-> srcfile,
                               line |-> line, fmt |-> fmt, args |-> args,
                               thr |-> L.level])
    /\ IF BelowThreshold(level)
       THEN UNCHANGED <<pc, loc>>
       ELSE /\ pc' = [pc EXCEPT ![t] = "clock"]
            /\ loc' = [loc EXCEPT ![t] = [NoLocals EXCEPT !.c = Len(calls) + 1,
                                          !.level = level, !.file = srcfile,
                                          !.line = line]]
    /\ UNCHANGED <<L, mutex, now, console, file, flushed, hist, nsets, asked, crashed>>

\* The call sites: each thread runs its own source file, with one line per
\* entry point; the format and its arguments are those of the line.
FileOf(t) == t
LineOf(level) == 10 + level
FmtOf(level) == IF level % 2 = 0 THEN "hello" ELSE "x=%d"
ArgsOf(level) == IF level % 2 = 0 THEN << >> ELSE <<level>>

\* The six entry points, each passing its own level, __FILE__ and __LINE__.
log_trace(t) ==
    log_log(t, LOG_TRACE, FileOf(t), LineOf(LOG_TRACE), FmtOf(LOG_TRACE), ArgsOf(LOG_TRACE))
log_debug(t) ==
    log_log(t, LOG_DEBUG, FileOf(t), LineOf(LOG_DEBUG), FmtOf(LOG_DEBUG), ArgsOf(LOG_DEBUG))
log_info(t) ==
    log_log(t, LOG_INFO, FileOf(t), LineOf(LOG_INFO), FmtOf(LOG_INFO), ArgsOf(LOG_INFO))
log_warn(t) ==
    log_log(t, LOG_WARN, FileOf(t), LineOf(LOG_WARN), FmtOf(LOG_WARN), ArgsOf(LOG_WARN))
log_error(t) ==
    log_log(t, LOG_ERROR, FileOf(t), LineOf(LOG_ERROR), FmtOf(LOG_ERROR), ArgsOf(LOG_ERROR))
log_fatal(t) ==
    log_log(t, LOG_FATAL, FileOf(t), LineOf(LOG_FATAL), FmtOf(LOG_FATAL), ArgsOf(LOG_FATAL))

\* log_log without the internal mutex: from the clock straight to lock().
ReadClock_NoMutex(t) ==
    /\ ~crashed
    /\ pc[t] = "clock"
    /\ now' = now + 1
    /\ loc' = [loc EXCEPT ![t].clock_now = HighResNow(now)]
    /\ hist' = Append(hist, Ev(loc[t].c, "clock", HighResNow(now)))
    /\ pc' = [pc EXCEPT ![t] = "lock"]
    /\ UNCHANGED <<L, mutex, console, file, flushed, calls, nsets, asked, crashed>>

\* clock_now = high_resolution_clock::now(); time passes between two
\* readings of a clock: one tick per reading.
ReadClock(t) ==
    /\ ~crashed
    /\ pc[t] = "clock"
    /\ now' = now + 1
    /\ loc' = [loc EXCEPT ![t].clock_now = HighResNow(now)]
    /\ hist' = Append(hist, Ev(loc[t].c, "clock", HighResNow(now)))
    /\ pc' = [pc EXCEPT ![t] = "acquire"]
    /\ UNCHANGED <<L, mutex, console, file, flushed, calls, nsets, asked, crashed>>

\* The mutex, not waited for.
MutexFree_NotChecked == TRUE

\* std::unique_lock<std::mutex> lock_global(global_log_mutex);
MutexFree == mutex = 0

\* log_log looking at the threshold again once it has the mutex, and
\* returning without a line if the call is below it by then.
AcquireMutex_Rechecks(t) ==
    /\ ~crashed
    /\ pc[t] = "acquire"
    /\ MutexFree
    /\ IF BelowThreshold(loc[t].level)
       THEN /\ pc' = [pc EXCEPT ![t] = "idle"]
            /\ loc' = [loc EXCEPT ![t] = NoLocals]
            /\ UNCHANGED <<mutex, hist>>
       ELSE /\ mutex' = t
            /\ hist' = Append(hist, Ev(loc[t].c, "mutex_lock", L.level))
            /\ pc' = [pc EXCEPT ![t] = "lock"]
            /\ UNCHANGED loc
    /\ UNCHANGED <<L, now, console, file, flushed, calls, nsets, asked, crashed>>

\* The acquisition is recorded with the threshold in memory at that moment.
AcquireMutex(t) ==
    /\ ~crashed
    /\ pc[t] = "acquire"
    /\ MutexFree
    /\ mutex' = t
    /\ hist' = Append(hist, Ev(loc[t].c, "mutex_lock", L.level))
    /\ pc' = [pc EXCEPT ![t] = "lock"]
    /\ UNCHANGED <<L, loc, now, console, file, flushed, calls, nsets, asked, crashed>>

\* L is read without synchronisation: a later read of a field in the same
\* function yields the value in memory or the value the function read before.
LockValues(t) == {L.lock, loc[t].lock}
FpValues(t) == {L.fp, loc[t].fp}

\* A call through the pointer fn: a null pointer ends the process, any other
\* pointer is the caller's hook, which records its arguments and returns.
InvokeHook(t, fn, acquire, next) ==
    IF fn = NULL
    THEN /\ crashed' = TRUE
         /\ UNCHANGED <<pc, loc, hist>>
    ELSE /\ hist' = Append(hist, Ev(loc[t].c, "hook", <<fn, L.udata, acquire>>))
         /\ loc' = [loc EXCEPT ![t].lock = fn]
         /\ pc' = [pc EXCEPT ![t] = next]
         /\ UNCHANGED crashed

\* lock(): if (L.lock) ...
LockTest(t) ==
    /\ ~crashed
    /\ pc[t] = "lock"
    /\ loc' = [loc EXCEPT ![t].lock = L.lock]
    /\ hist' = Append(hist, Ev(loc[t].c, "lock_test", L.lock))
    /\ pc' = [pc EXCEPT ![t] = IF L.lock # NULL THEN "lock_call" ELSE "time"]
    /\ UNCHANGED <<L, mutex, now, console, file, flushed, calls, nsets, asked, crashed>>

\* lock(): ... L.lock(L.udata, 1);
LockCall(t) ==
    /\ ~crashed
    /\ pc[t] = "lock_call"
    /\ \E fn \in LockValues(t) : InvokeHook(t, fn, 1, "time")
    /\ UNCHANGED <<L, mutex, now, console, file, flushed, calls, nsets, asked>>

\* time(): seconds since the epoch. The program starts three seconds before
\* the end of the epoch's first day, so that a run can pass midnight.
StartOfTime == 86397
WallClock(n) == StartOfTime + n

\* The stamp taken from clock_now, the reading made before the mutex.
ReadTime_FromClockNow(t) ==
    /\ ~crashed
    /\ pc[t] = "time"
    /\ now' = now + 1
    /\ loc' = [loc EXCEPT ![t].t = WallClock(loc[t].clock_now \div NsPerTick)]
    /\ hist' = Append(hist, Ev(loc[t].c, "time", WallClock(loc[t].clock_now \div NsPerTick)))
    /\ pc' = [pc EXCEPT ![t] = "quiet"]
    /\ UNCHANGED <<L, mutex, console, file, flushed, calls, nsets, asked, crashed>>

\* time_t t = time(nullptr); struct tm *lt = localtime(&t);
ReadTime(t) ==
    /\ ~crashed
    /\ pc[t] = "time"
    /\ now' = now + 1
    /\ loc' = [loc EXCEPT ![t].t = WallClock(now)]
    /\ hist' = Append(hist, Ev(loc[t].c, "time", WallClock(now)))
    /\ pc' = [pc EXCEPT ![t] = "quiet"]
    /\ UNCHANGED <<L, mutex, console, file, flushed, calls, nsets, asked, crashed>>

\* What one fprintf writes. The format "%s %-5s (ts: %.6lf) %s:%d: " prints
\* the time stamp, the padded level name, ts and the caller's file and line,
\* and nothing after "file:line: ": text is what the format holds after it.
Write(kind, date, hms, name, ts, srcfile, line, text) ==
    [kind |-> kind, date |-> date, hms |-> hms, name |-> name, ts |-> ts,
     file |-> srcfile, line |-> line, text |-> text]
Newline == Write("nl", NoDate, <<0, 0, 0>>, "", <<0, 0>>, 0, 0, "")
ConsolePrefix(t) ==
    Write("prefix", NoDate, HMS(loc[t].t), PadRight(level_names[loc[t].level + 1], 5),
          TsConsole(loc[t].clock_now), loc[t].file, loc[t].line, "")
FilePrefix(t) ==
    Write("prefix", YMD(loc[t].t), HMS(loc[t].t),
          PadRight(level_names[loc[t].level + 1], 5),
          TsFile(loc[t].clock_now), loc[t].file, loc[t].line, "")

\* The quiet test leaving the whole output out, not only the console's.
QuietTest_SkipsFile(t) ==
    /\ ~crashed
    /\ pc[t] = "quiet"
    /\ hist' = Append(hist, Ev(loc[t].c, "quiet_test", L.quiet))
    /\ pc' = [pc EXCEPT ![t] = IF L.quiet = 0 THEN "stderr_prefix" ELSE "unlock"]
    /\ UNCHANGED <<L, mutex, loc, now, console, file, flushed, calls, nsets, asked, crashed>>

\* if (!L.quiet)
QuietTest(t) ==
    /\ ~crashed
    /\ pc[t] = "quiet"
    /\ hist' = Append(hist, Ev(loc[t].c, "quiet_test", L.quiet))
    /\ pc' = [pc EXCEPT ![t] = IF L.quiet = 0 THEN "stderr_prefix" ELSE "fp_test"]
    /\ UNCHANGED <<L, mutex, loc, now, console, file, flushed, calls, nsets, asked, crashed>>

\* fprintf(stderr, "%s %-5s (ts: %.6lf) %s:%d: ", ...);
StderrPrefix(t) ==
    /\ ~crashed
    /\ pc[t] = "stderr_prefix"
    /\ console' = Append(console, ConsolePrefix(t))
    /\ hist' = Append(hist, Ev(loc[t].c, "stderr", Len(console) + 1))
    /\ pc' = [pc EXCEPT ![t] = "stderr_nl"]
    /\ UNCHANGED <<L, mutex, loc, now, file, flushed, calls, nsets, asked, crashed>>

\* The newline of the console line, forgotten.
StderrNewline_Missing(t) ==
    /\ ~crashed
    /\ pc[t] = "stderr_nl"
    /\ pc' = [pc EXCEPT ![t] = "fp_test"]
    /\ UNCHANGED <<L, mutex, loc, now, console, file, flushed, hist, calls, nsets, asked, crashed>>

\* fprintf(stderr, "\n");
StderrNewline(t) ==
    /\ ~crashed
    /\ pc[t] = "stderr_nl"
    /\ console' = Append(console, Newline)
    /\ hist' = Append(hist, Ev(loc[t].c, "stderr", Len(console) + 1))
    /\ pc' = [pc EXCEPT ![t] = "fp_test"]
    /\ UNCHANGED <<L, mutex, loc, now, file, flushed, calls, nsets, asked, crashed>>

\* if (L.fp)
FpTest(t) ==
    /\ ~crashed
    /\ pc[t] = "fp_test"
    /\ loc' = [loc EXCEPT ![t].fp = L.fp]
    /\ hist' = Append(hist, Ev(loc[t].c, "fp_test", L.fp))
    /\ pc' = [pc EXCEPT ![t] = IF L.fp # NULL THEN "fp_prefix" ELSE "unlock"]
    /\ UNCHANGED <<L, mutex, now, console, file, flushed, calls, nsets, asked, crashed>>

\* fprintf on a stream that puts each write in front of what it holds.
FileWrite_AtFront(t, fp, w, next) ==
    IF fp = NULL
    THEN /\ crashed' = TRUE
         /\ UNCHANGED <<pc, loc, file, hist>>
    ELSE /\ file' = [file EXCEPT ![fp] = <<w>> \o @]
         /\ hist' = Append(hist, Ev(loc[t].c, "fp", <<fp, 1>>))
         /\ loc' = [loc EXCEPT ![t].fp = fp]
         /\ pc' = [pc EXCEPT ![t] = next]
         /\ UNCHANGED crashed

\* fprintf(fp, ...): on a null FILE* the process ends.
FileWrite(t, fp, w, next) ==
    IF fp = NULL
    THEN /\ crashed' = TRUE
         /\ UNCHANGED <<pc, loc, file, hist>>
    ELSE /\ file' = [file EXCEPT ![fp] = Append(@, w)]
         /\ hist' = Append(hist, Ev(loc[t].c, "fp", <<fp, Len(file[fp]) + 1>>))
         /\ loc' = [loc EXCEPT ![t].fp = fp]
         /\ pc' = [pc EXCEPT ![t] = next]
         /\ UNCHANGED crashed

\* fprintf(L.fp, "%s %-5s (ts: %.6lf) %s:%d: ", ...);
FpPrefix(t) ==
    /\ ~crashed
    /\ pc[t] = "fp_prefix"
    /\ \E fp \in FpValues(t) : FileWrite(t, fp, FilePrefix(t), "fp_nl")
    /\ UNCHANGED <<L, mutex, now, console, flushed, calls, nsets, asked>>

\* fprintf(L.fp, "\n");
FpNewline(t) ==
    /\ ~crashed
    /\ pc[t] = "fp_nl"
    /\ \E fp \in FpValues(t) : FileWrite(t, fp, Newline, "fflush")
    /\ UNCHANGED <<L, mutex, now, console, flushed, calls, nsets, asked>>

\* A flush that flushes nothing.
FlushOf_Nothing(fp) == flushed

\* fflush(fp): fflush(NULL) flushes every open output stream.
FlushOf(fp) ==
    [h \in Handles |-> IF fp = NULL \/ fp = h THEN Len(file[h]) ELSE flushed[h]]

\* fflush(L.fp);
Fflush(t) ==
    /\ ~crashed
    /\ pc[t] = "fflush"
    /\ \E fp \in FpValues(t) :
          /\ flushed' = FlushOf(fp)
          /\ hist' = Append(hist, Ev(loc[t].c, "fflush", fp))
          /\ loc' = [loc EXCEPT ![t].fp = fp]
    /\ pc' = [pc EXCEPT ![t] = "unlock"]
    /\ UNCHANGED <<L, mutex, now, console, file, calls, nsets, asked, crashed>>

\* unlock(): if (L.lock) ...
UnlockTest(t) ==
    /\ ~crashed
    /\ pc[t] = "unlock"
    /\ loc' = [loc EXCEPT ![t].lock = L.lock]
    /\ hist' = Append(hist, Ev(loc[t].c, "unlock_test", L.lock))
    /\ pc' = [pc EXCEPT ![t] = IF L.lock # NULL THEN "unlock_call" ELSE "release"]
    /\ UNCHANGED <<L, mutex, now, console, file, flushed, calls, nsets, asked, crashed>>

\* unlock() passing 1, as lock() does.
UnlockCall_Acquires(t) ==
    /\ ~crashed
    /\ pc[t] = "unlock_call"
    /\ \E fn \in LockValues(t) : InvokeHook(t, fn, 1, "release")
    /\ UNCHANGED <<L, mutex, now, console, file, flushed, calls, nsets, asked>>

\* unlock(): ... L.lock(L.udata, 0);
UnlockCall(t) ==
    /\ ~crashed
    /\ pc[t] = "unlock_call"
    /\ \E fn \in LockValues(t) : InvokeHook(t, fn, 0, "release")
    /\ UNCHANGED <<L, mutex, now, console, file, flushed, calls, nsets, asked>>

\* End of the block: lock_global's destructor unlocks the mutex; return.
ReleaseMutex(t) ==
    /\ ~crashed
    /\ pc[t] = "release"
    /\ mutex' = 0
    /\ hist' = Append(hist, Ev(loc[t].c, "mutex_unlock", 0))
    /\ pc' = [pc EXCEPT ![t] = "idle"]
    /\ loc' = [loc EXCEPT ![t] = NoLocals]
    /\ UNCHANGED <<L, now, console, file, flushed, calls, nsets, asked, crashed>>

Next ==
    \/ \E t \in Threads : log_trace(t)
    \/ \E t \in Threads : log_debug(t)
    \/ \E t \in Threads : log_info(t)
    \/ \E t \in Threads : log_warn(t)
    \/ \E t \in Threads : log_error(t)
    \/ \E t \in Threads : log_fatal(t)
    \/ \E t \in Threads : ReadClock(t)
    \/ \E t \in Threads : AcquireMutex(t)
    \/ \E t \in Threads : LockTest(t)
    \/ \E t \in Threads : LockCall(t)
    \/ \E t \in Threads : ReadTime(t)
    \/ \E t \in Threads : QuietTest(t)
    \/ \E t \in Threads : StderrPrefix(t)
    \/ \E t \in Threads : StderrNewline(t)
    \/ \E t \in Threads : FpTest(t)
    \/ \E t \in Threads : FpPrefix(t)
    \/ \E t \in Threads : FpNewline(t)
    \/ \E t \in Threads : Fflush(t)
    \/ \E t \in Threads : UnlockTest(t)
    \/ \E t \in Threads : UnlockCall(t)
    \/ \E t \in Threads : ReleaseMutex(t)
    \/ SetUdata
    \/ SetLock
    \/ SetFp
    \/ SetLevel
    \/ SetQuiet

Spec == Init /\ [][Next]_vars

\* A thread inside log_log takes its next step: nothing in log_log waits
\* but the acquisition of the mutex, and the hook returns.
ThreadStep(t) ==
    \/ ReadClock(t) \/ AcquireMutex(t) \/ LockTest(t) \/ LockCall(t)
    \/ ReadTime(t) \/ QuietTest(t) \/ StderrPrefix(t) \/ StderrNewline(t)
    \/ FpTest(t) \/ FpPrefix(t) \/ FpNewline(t) \/ Fflush(t)
    \/ UnlockTest(t) \/ UnlockCall(t) \/ ReleaseMutex(t)

\* Fair scheduling of the threads that are inside log_log; callers and
\* setters come when they come.
FairSpec == Spec /\ \A t \in Threads : WF_vars(ThreadStep(t))

\* ------------------------------------------------- reading the history
CallIds == 1..Len(calls)
\* The call passed the threshold check / was turned away by it.
Emitted(c) == calls[c].level >= calls[c].thr
Suppressed(c) == calls[c].level < calls[c].thr
\* The positions in hist of call c's events, and of its events of one kind.
EventsOf(c) == {i \in 1..Len(hist) : hist[i].c = c}
OpsOf(c, op) == {i \in 1..Len(hist) : hist[i].c = c /\ hist[i].op = op}
\* The call has released the mutex and returned.
Returned(c) == OpsOf(c, "mutex_unlock") # {}
\* The thread that runs call c, while it runs.
Running(c, t) == pc[t] # "idle" /\ loc[t].c = c
\* What call c read of L.quiet, L.fp and L.lock (a set: empty before the read).
QuietRead(c) == {hist[i].arg : i \in OpsOf(c, "quiet_test")}
FpRead(c) == {hist[i].arg : i \in OpsOf(c, "fp_test")}
\* The positions in console call c wrote, and the <<handle, position>> pairs
\* it wrote in the files, and the handles it flushed.
ConsoleWrites(c) == {hist[i].arg : i \in OpsOf(c, "stderr")}
FileWrites(c) == {hist[i].arg : i \in OpsOf(c, "fp")}
Flushes(c) == {hist[i].arg : i \in OpsOf(c, "fflush")}
\* Every handle call c used in its file section.
HandlesOf(c) == FpRead(c) \cup {w[1] : w \in FileWrites(c)} \cup Flushes(c)
\* L.fp was the same at every read of call c.
SameHandle(c) == Cardinality(HandlesOf(c)) <= 1
\* The calls that wrote position i of console / of file h.
ConsoleWriter(i) == {c \in CallIds : i \in ConsoleWrites(c)}
FileWriter(h, i) == {c \in CallIds : <<h, i>> \in FileWrites(c)}
\* The positions between mutex acquisition and release.
Critical ==
    {"lock", "lock_call", "time", "quiet", "stderr_prefix", "stderr_nl", "fp_test",
     "fp_prefix", "fp_nl", "fflush", "unlock", "unlock_call", "release"}
InCritical(t) == pc[t] \in Critical

\* ----------------------------------------------------------------- C1
\* C1: a call of log_log with level < L.level returns at once and changes
\* nothing: no byte on stderr or in a file, no flush, no reading of either
\* clock (the clock ticks at each reading), the mutex untouched, no hook
\* invocation, L as it was; and no event is ever recorded for such a call.
C1_SuppressedCallHasNoEffect ==
    [][ /\ \A n \in 1..Len(calls') :
              (n > Len(calls) /\ calls'[n].level < L.level) =>
                  UNCHANGED <<L, mutex, pc, loc, now, console, file, flushed,
                              hist, nsets, asked, crashed>>
        /\ \A c \in 1..Len(calls') :
              calls'[c].level < calls'[c].thr =>
                  /\ \A i \in 1..Len(hist') : hist'[i].c # c
                  /\ \A t \in Threads : loc'[t].c # c ]_vars

\* A call was suppressed while a hook and a file were installed.
C1_Witness ==
    \E c \in CallIds : Suppressed(c) /\ L.lock # NULL /\ L.fp # NULL /\ hist = << >>

\* ----------------------------------------------------------------- C2
\* The writes of a sink form complete lines: a prefix is followed by the
\* newline of the same call, or is the last write and its call is about to
\* write the newline; a newline follows the prefix of its call.
CompleteLines(sink, writer(_), nlpc) ==
    \A i \in 1..Len(sink) :
        /\ sink[i].kind = "prefix" =>
              IF i < Len(sink)
              THEN sink[i + 1].kind = "nl" /\ writer(i + 1) = writer(i)
              ELSE \E t \in Threads : pc[t] = nlpc /\ writer(i) = {loc[t].c}
        /\ sink[i].kind = "nl" =>
              i > 1 /\ sink[i - 1].kind = "prefix" /\ writer(i - 1) = writer(i)

\* What file h holds was written by calls that saw one handle throughout.
WrittenUndisturbed(h) ==
    \A i \in 1..Len(file[h]) : \A c \in FileWriter(h, i) : SameHandle(c)

\* C2: at most one thread is between acquiring and releasing the mutex, and
\* it is the owner; stderr holds complete lines, never a prefix of one call
\* with the newline of another, and so does every file written by calls during
\* which L.fp was not changed; when every call has returned stderr holds one
\* line per call that found quiet unset.
C2_OneLineAtATime ==
    /\ \A t, u \in Threads : InCritical(t) /\ InCritical(u) => t = u
    /\ \A t \in Threads : InCritical(t) <=> mutex = t
    /\ CompleteLines(console, ConsoleWriter, "stderr_nl")
    /\ \A h \in Handles :
          LET FileWriterH(i) == FileWriter(h, i)
          IN  WrittenUndisturbed(h) => CompleteLines(file[h], FileWriterH, "fp_nl")
    /\ (~InFlight) =>
          Len(console) = 2 * Cardinality({c \in CallIds : QuietRead(c) = {0}})

\* Two calls overlapped (the second read its clock before the first released
\* the mutex) and both have written their line to stderr and to a file.
C2_Witness ==
    /\ Len(calls) = 2 /\ Returned(1) /\ Returned(2)
    /\ \E i \in OpsOf(2, "clock") : \E j \in OpsOf(1, "mutex_unlock") : i < j
    /\ Len(console) = 4
    /\ \E h \in Handles : Len(file[h]) = 4

\* ----------------------------------------------------------------- C3
\* The writes at positions ws of a sink are one line: a prefix and, right
\* after it, one newline, not followed by another newline.
OneLine(sink, ws) ==
    \E i \in 1..(Len(sink) - 1) :
        /\ ws = {i, i + 1}
        /\ sink[i].kind = "prefix"
        /\ sink[i + 1].kind = "nl"
        /\ i + 2 <= Len(sink) => sink[i + 2].kind # "nl"

\* Call c wrote one prefix and then one newline to files, and nothing else.
OnePrefixThenNewline(c) ==
    \E i, j \in OpsOf(c, "fp") :
        /\ i < j
        /\ OpsOf(c, "fp") = {i, j}
        /\ file[hist[i].arg[1]][hist[i].arg[2]].kind = "prefix"
        /\ file[hist[j].arg[1]][hist[j].arg[2]].kind = "nl"

\* C3: a call with level >= threshold that has returned wrote exactly one
\* line, ended by one newline, to stderr if it found quiet unset and nothing
\* if it found it set; it wrote nothing to a file if it found L.fp null, and
\* else one prefix and one newline, which are one line of the file L.fp named
\* when L.fp was not changed during the call.
C3_ExactlyOneLinePerSink ==
    \A c \in CallIds :
        (Emitted(c) /\ Returned(c)) =>
            /\ QuietRead(c) \in {{0}, {1}}
            /\ QuietRead(c) = {0} => OneLine(console, ConsoleWrites(c))
            /\ QuietRead(c) = {1} => ConsoleWrites(c) = {}
            /\ FpRead(c) = {NULL} => FileWrites(c) = {}
            /\ FpRead(c) # {NULL} =>
                  /\ OnePrefixThenNewline(c)
                  /\ SameHandle(c) =>
                        \A h \in FpRead(c) :
                            /\ \A w \in FileWrites(c) : w[1] = h
                            /\ OneLine(file[h], {w[2] : w \in FileWrites(c)})

\* A call has returned after writing its line to stderr and to a file.
C3_Witness ==
    \E c \in CallIds :
        /\ Returned(c)
        /\ QuietRead(c) = {0}
        /\ FpRead(c) # {NULL}
        /\ SameHandle(c)
        /\ Cardinality(ConsoleWrites(c)) = 2
        /\ Cardinality(FileWrites(c)) = 2

\* ----------------------------------------------------------------- C4
\* printf's expansion of the formats the call sites use.
Message(fmt, args) == IF fmt = "x=%d" THEN "x=" \o ToString(args[1]) ELSE fmt

\* C4: in the line a call writes, to stderr and to a file, "file:line: " is
\* followed by the message: the caller's format expanded with its arguments.
C4_LineEndsWithMessage ==
    \A c \in CallIds :
        /\ \A i \in ConsoleWrites(c) :
              console[i].kind = "prefix" =>
                  console[i].text = Message(calls[c].fmt, calls[c].args)
        /\ \A w \in FileWrites(c) :
              file[w[1]][w[2]].kind = "prefix" =>
                  file[w[1]][w[2]].text = Message(calls[c].fmt, calls[c].args)

\* ----------------------------------------------------------------- C5
\* The hook invocations of call c with acquire = a, what the call read of
\* L.lock in lock() and in unlock(), and its writes and flushes.
HookCalls(c, a) == {i \in OpsOf(c, "hook") : hist[i].arg[3] = a}
LockRead(c) == {hist[i].arg : i \in OpsOf(c, "lock_test")}
UnlockRead(c) == {hist[i].arg : i \in OpsOf(c, "unlock_test")}
SinkOps(c) == OpsOf(c, "stderr") \cup OpsOf(c, "fp") \cup OpsOf(c, "fflush")

\* C5: a suppressed call never invokes the hook. A call that has returned
\* and found a hook installed in lock() invoked it exactly once with acquire
\* = 1, before every sink write of the call; one that found a hook installed
\* in unlock() invoked it exactly once with acquire = 0, after every sink
\* write of the call; one that found none invoked none. No call, returned
\* or not, invokes either more than once or on the wrong side of a write.
C5_HookOncePerEmittedCall ==
    \A c \in CallIds :
        /\ Suppressed(c) => OpsOf(c, "hook") = {}
        /\ Cardinality(HookCalls(c, 1)) <= 1
        /\ Cardinality(HookCalls(c, 0)) <= 1
        /\ OpsOf(c, "hook") = HookCalls(c, 1) \cup HookCalls(c, 0)
        /\ \A i \in HookCalls(c, 1) : \A j \in SinkOps(c) : i < j
        /\ \A i \in HookCalls(c, 0) : \A j \in SinkOps(c) : j < i
        /\ Returned(c) =>
              /\ Cardinality(HookCalls(c, 1)) = (IF LockRead(c) = {NULL} THEN 0 ELSE 1)
              /\ Cardinality(HookCalls(c, 0)) = (IF UnlockRead(c) = {NULL} THEN 0 ELSE 1)

\* A call has returned that invoked the hook before and after writing its
\* line to stderr and to a file.
C5_Witness ==
    \E c \in CallIds :
        /\ Returned(c)
        /\ HookCalls(c, 1) # {} /\ HookCalls(c, 0) # {}
        /\ ConsoleWrites(c) # {} /\ FileWrites(c) # {}

\* ----------------------------------------------------------------- C6
\* The readings call c took of the high-resolution clock and of time().
ClockOf(c) == {hist[i].arg : i \in OpsOf(c, "clock")}
TimeOf(c) == {hist[i].arg : i \in OpsOf(c, "time")}

\* The file line of call c as its arguments and clock readings give it,
\* whatever quiet is: date and time, padded level name, ts, file and line.
FileLineOf(c) ==
    {Write("prefix", YMD(s), HMS(s), PadRight(level_names[calls[c].level + 1], 5),
           TsFile(ns), calls[c].file, calls[c].line, "") :
        s \in TimeOf(c), ns \in ClockOf(c)}

\* Call c wrote to files what a call writes with quiet unset: nothing if it
\* found L.fp null, else its file line and then a newline.
FileOutputAsUnquiet(c) ==
    IF FpRead(c) = {NULL}
    THEN FileWrites(c) = {}
    ELSE \E i, j \in OpsOf(c, "fp") :
            /\ i < j
            /\ OpsOf(c, "fp") = {i, j}
            /\ {file[hist[i].arg[1]][hist[i].arg[2]]} = FileLineOf(c)
            /\ file[hist[j].arg[1]][hist[j].arg[2]] = Newline

\* C6: a returned call that found quiet set wrote nothing to stderr, and to
\* files exactly what a call that found quiet unset writes: the file line
\* its arguments and clock readings give, then a newline (both kinds of call
\* satisfy the same FileOutputAsUnquiet); this whatever threshold it passed.
\* L.quiet is only ever 0 or 1.
C6_QuietSilencesConsoleOnly ==
    /\ L.quiet \in {0, 1}
    /\ \A c \in CallIds :
          Returned(c) =>
              /\ QuietRead(c) = {1} => ConsoleWrites(c) = {}
              /\ FileOutputAsUnquiet(c)

\* A call above a raised threshold has returned that found quiet set and a
\* file installed: stderr is empty and the file holds its line.
C6_Witness ==
    \E c \in CallIds :
        /\ Returned(c)
        /\ calls[c].thr = LOG_WARN
        /\ QuietRead(c) = {1}
        /\ console = << >>
        /\ \E h \in Handles : FpRead(c) = {h} /\ Len(file[h]) = 2

\* ----------------------------------------------------------------- C7
\* C7: as long as no setter has been called, L holds the defaults (threshold
\* LOG_TRACE, quiet off, no file, no hook, no user data); no call is
\* suppressed, whatever its level; no call writes to a file, flushes or
\* invokes a hook; and every returned call wrote exactly one line to stderr.
C7_DefaultsEmitEverythingToConsole ==
    nsets = 0 =>
        /\ L = [udata |-> NULL, lock |-> NULL, fp |-> NULL, level |-> LOG_TRACE,
                quiet |-> 0]
        /\ \A c \in CallIds :
              /\ Emitted(c)
              /\ FileWrites(c) = {} /\ Flushes(c) = {} /\ OpsOf(c, "hook") = {}
              /\ Returned(c) => OneLine(console, ConsoleWrites(c))
        /\ \A h \in Handles : file[h] = << >>

\* With no setter ever called, two calls of different levels have returned.
C7_Witness ==
    /\ nsets = 0
    /\ Len(calls) = 2 /\ Returned(1) /\ Returned(2)
    /\ calls[1].level # calls[2].level
    /\ Len(console) = 4

\* ----------------------------------------------------------------- C8
\* C8: a call that wrote to a file flushes exactly once, after its newline
\* and before unlock() and the release of the mutex; and when no thread is
\* between acquiring and releasing the mutex, a file written only by calls
\* during which L.fp was not changed holds no unflushed write.
C8_FlushedBeforeRelease ==
    /\ \A c \in CallIds :
          /\ \A k \in OpsOf(c, "fflush") : \A i \in OpsOf(c, "fp") : i < k
          /\ \A k \in OpsOf(c, "fflush") :
                \A i \in OpsOf(c, "unlock_test") \cup HookCalls(c, 0)
                         \cup OpsOf(c, "mutex_unlock") : k < i
          /\ (FileWrites(c) # {} /\ OpsOf(c, "unlock_test") # {}) =>
                Cardinality(OpsOf(c, "fflush")) = 1
          /\ FileWrites(c) = {} => OpsOf(c, "fflush") = {}
    /\ (\A t \in Threads : ~InCritical(t)) =>
          \A h \in Handles : WrittenUndisturbed(h) => flushed[h] = Len(file[h])

\* A call has written its line to a file and returned; the line is flushed.
C8_Witness ==
    /\ \A t \in Threads : ~InCritical(t)
    /\ \E c \in CallIds : \E h \in Handles :
          /\ Returned(c) /\ FpRead(c) = {h} /\ SameHandle(c)
          /\ Len(file[h]) = 2 /\ flushed[h] = 2

\* ----------------------------------------------------------------- C9
\* L as the last call of each setter asked for it (quiet as a truth value).
AsAsked ==
    [udata |-> asked.udata, lock |-> asked.lock, fp |-> asked.fp,
     level |-> asked.level, quiet |-> IF asked.quiet # 0 THEN 1 ELSE 0]

\* C9: a setter call changes its own field of L to its argument (quiet to 1
\* or 0) and no other field, so that L is always what the last call of each
\* setter asked for; it writes to no sink, flushes nothing, reads no clock,
\* leaves the mutex, the hook and every log_log call where they are; and it
\* waits for nothing: it can run while a thread holds the mutex.
C9_SettersChangeOnlyTheirField ==
    [][ /\ nsets' # nsets =>
              UNCHANGED <<mutex, pc, loc, now, console, file, flushed, hist,
                          calls, crashed>>
        /\ L' = AsAsked'
        /\ (L' # L) => nsets' # nsets
        /\ (mutex # 0 /\ ~crashed /\ WithinBounds(Len(calls), nsets + 1)) =>
              /\ ENABLED SetUdata /\ ENABLED SetLock /\ ENABLED SetFp
              /\ ENABLED SetLevel /\ ENABLED SetQuiet ]_vars

\* Setters were called three times, one of them log_set_quiet(2) and one
\* while a thread held the mutex, and a file installed earlier is still set.
C9_Witness ==
    /\ nsets = 3
    /\ asked.quiet = 2 /\ L.quiet = 1
    /\ L.fp # NULL
    /\ mutex # 0
    /\ \E c \in CallIds : OpsOf(c, "lock_test") # {} /\ LockRead(c) # {L.lock}

\* ---------------------------------------------------------------- C10
\* C10: every hook invocation of a call happens while the call's thread
\* holds the mutex: after the call acquired it and before the call releases
\* it, the acquire=1 invocation before the acquire=0 one; and a thread about
\* to invoke the hook owns the mutex.
C10_HookInsideMutex ==
    /\ \A c \in CallIds : \A i \in OpsOf(c, "hook") :
          /\ \E j \in OpsOf(c, "mutex_lock") : j < i
          /\ \A j \in OpsOf(c, "mutex_unlock") : i < j
          /\ \A d \in CallIds \ {c} :
                \A j \in OpsOf(d, "mutex_lock") \cup OpsOf(d, "mutex_unlock") :
                    j < i => \E k \in OpsOf(d, "mutex_unlock") : j <= k /\ k < i
    /\ \A c \in CallIds : \A i \in HookCalls(c, 1) : \A j \in HookCalls(c, 0) : i < j
    /\ \A t \in Threads : pc[t] \in {"lock_call", "unlock_call"} => mutex = t

\* Two overlapping calls have both invoked the hook with 1 and with 0.
C10_Witness ==
    /\ Len(calls) = 2 /\ Returned(1) /\ Returned(2)
    /\ \E i \in OpsOf(2, "clock") : \E j \in OpsOf(1, "mutex_unlock") : i < j
    /\ \A c \in CallIds : HookCalls(c, 1) # {} /\ HookCalls(c, 0) # {}

\* ---------------------------------------------------------------- C11
\* Call c acquired the mutex before call d did.
AcquiredBefore(c, d) ==
    \E i \in OpsOf(c, "mutex_lock") : \E j \in OpsOf(d, "mutex_lock") : i < j
\* Everything call c wrote on stderr / in file h lies before everything call
\* d wrote there.
ConsoleBefore(c, d) ==
    \A i \in ConsoleWrites(c) : \A j \in ConsoleWrites(d) : i < j
FileBefore(h, c, d) ==
    \A v \in FileWrites(c) : \A w \in FileWrites(d) :
        (v[1] = h /\ w[1] = h) => v[2] < w[2]
WroteBoth(h, c) ==
    ConsoleWrites(c) # {} /\ \E w \in FileWrites(c) : w[1] = h

\* C11: on stderr and in every file the lines stand in the order in which
\* their calls acquired the mutex; so two calls that both wrote to stderr
\* and to one file stand in the same order in both.
C11_LinesInAcquisitionOrder ==
    \A c, d \in CallIds :
        /\ AcquiredBefore(c, d) =>
              /\ ConsoleBefore(c, d)
              /\ \A h \in Handles : FileBefore(h, c, d)
        /\ \A h \in Handles :
              (c # d /\ WroteBoth(h, c) /\ WroteBoth(h, d)) =>
                  (ConsoleBefore(c, d) <=> FileBefore(h, c, d))

\* The second call acquired the mutex before the first, and both have
\* written their line to stderr and to the same file.
C11_Witness ==
    /\ Len(calls) = 2 /\ Returned(1) /\ Returned(2)
    /\ AcquiredBefore(2, 1)
    /\ \E h \in Handles : WroteBoth(h, 1) /\ WroteBoth(h, 2) /\ Len(file[h]) = 4
    /\ Len(console) = 4

\* ---------------------------------------------------------------- C12
\* C12: under fair scheduling every call that passed the threshold check
\* eventually returns, the mutex released by its thread.
C12_EveryEmittedCallReturns ==
    \A t \in Threads : (pc[t] # "idle") ~> (pc[t] = "idle" /\ mutex # t)

\* ---------------------------------------------------------------- C13
\* The level field of a line, by level: the name in a field of 5.
PaddedNames == <<"TRACE", "DEBUG", "INFO ", "WARN ", "ERROR", "FATAL">>

\* The prefix w of a line of call c names c's level and c's call site.
NamesCall(w, c) ==
    /\ w.name = PaddedNames[calls[c].level + 1]
    /\ Len(w.name) = 5
    /\ w.file = calls[c].file
    /\ w.line = calls[c].line

\* The call just made was made with this level.
Passes(level) ==
    Len(calls') = Len(calls) + 1 /\ calls'[Len(calls')].level = level

\* C13: every line prefix on stderr and in a file carries the name of its
\* call's level padded to 5 characters and the file and line its caller
\* passed; each entry point passes its own level, and the level of every
\* call is an index of level_names.
C13_LevelNameAndCallSite ==
    [][ /\ \A c \in 1..Len(calls') :
              /\ calls'[c].level \in LOG_TRACE..LOG_FATAL
              /\ calls'[c].level + 1 \in DOMAIN level_names
        /\ (\A c \in CallIds :
              /\ \A i \in ConsoleWrites(c) :
                    console[i].kind = "prefix" => NamesCall(console[i], c)
              /\ \A w \in FileWrites(c) :
                    file[w[1]][w[2]].kind = "prefix" => NamesCall(file[w[1]][w[2]], c))'
        /\ \A t \in Threads :
              /\ log_trace(t) => Passes(LOG_TRACE)
              /\ log_debug(t) => Passes(LOG_DEBUG)
              /\ log_info(t) => Passes(LOG_INFO)
              /\ log_warn(t) => Passes(LOG_WARN)
              /\ log_error(t) => Passes(LOG_ERROR)
              /\ log_fatal(t) => Passes(LOG_FATAL) ]_vars

\* A call made through log_info has written "INFO " to stderr and to a file.
C13_Witness ==
    \E c \in CallIds :
        /\ calls[c].level = LOG_INFO
        /\ Returned(c)
        /\ \E i \in ConsoleWrites(c) : console[i].name = "INFO "
        /\ \E w \in FileWrites(c) :
              file[w[1]][w[2]].name = "INFO " /\ file[w[1]][w[2]].line = LineOf(LOG_INFO)

\* ---------------------------------------------------------------- C14
\* Hook invocations i and j went to the same callback with the same user data.
SameHookAndData(i, j) ==
    hist[i].arg[1] = hist[j].arg[1] /\ hist[i].arg[2] = hist[j].arg[2]

\* C14: with log_set_lock and log_set_udata called at any time, every
\* acquire=1 invocation of a call is followed, before the call releases the
\* mutex, by an acquire=0 invocation of the same callback with the same user
\* data, and every acquire=0 invocation of a call comes after an acquire=1
\* invocation of that callback by the same call.
C14_HookBalanced ==
    \A c \in CallIds :
        /\ Returned(c) =>
              \A i \in HookCalls(c, 1) :
                  \E j \in HookCalls(c, 0) :
                      /\ i < j
                      /\ \A k \in OpsOf(c, "mutex_unlock") : j < k
                      /\ SameHookAndData(i, j)
        /\ \A j \in HookCalls(c, 0) :
              \E i \in HookCalls(c, 1) : i < j /\ hist[i].arg[1] = hist[j].arg[1]

\* ---------------------------------------------------------------- C15
\* The process ended in a write to a file: its thread stands at the write.
DiedInFileWrite == crashed /\ \E t \in Threads : pc[t] \in {"fp_prefix", "fp_nl"}

\* C15: with log_set_fp called at any time, a call uses one handle for the
\* null test, the two writes and the flush, so that no line is split over
\* two handles; and no write and no flush is issued on a null handle.
C15_OneHandlePerCall ==
    /\ \A c \in CallIds : SameHandle(c)
    /\ \A c \in CallIds : NULL \notin Flushes(c)
    /\ ~DiedInFileWrite

\* ---------------------------------------------------------------- C16
\* The threshold stood above call c's level when c acquired the mutex.
RaisedBeforeAcquire(c) ==
    \E i \in OpsOf(c, "mutex_lock") : hist[i].arg > calls[c].level
\* The positions at which log_log reads L.quiet and L.fp.
ReadsOfQuietAndFp == {"quiet", "fp_test", "fp_prefix", "fp_nl", "fflush"}
\* Call c is over: no thread runs it.
Over(c) == \A t \in Threads : ~Running(c, t)

\* C16: the threshold is looked at once, at entry, by a thread that does not
\* hold the mutex. Every step and every line of log_log belongs to a call
\* whose level was >= the threshold at that look; a call that passed it goes
\* through to the release of the mutex and writes its lines where quiet and
\* L.fp let it, also when the threshold stood above its level by the time
\* it acquired the mutex. L.quiet and L.fp are read by the mutex's owner,
\* between the call's acquisition and its release of the mutex.
C16_ThresholdCheckedOnceAtEntry ==
    /\ \A c \in CallIds :
          /\ (EventsOf(c) # {} \/ \E t \in Threads : Running(c, t)) => Emitted(c)
          /\ (Emitted(c) /\ Over(c)) => Returned(c)
          /\ Returned(c) =>
                /\ QuietRead(c) = {0} => Cardinality(ConsoleWrites(c)) = 2
                /\ FpRead(c) # {NULL} => Cardinality(FileWrites(c)) = 2
          /\ \A i \in OpsOf(c, "quiet_test") \cup OpsOf(c, "fp_test")
                      \cup OpsOf(c, "fp") \cup OpsOf(c, "fflush") :
                /\ \E j \in OpsOf(c, "mutex_lock") : j < i
                /\ \A j \in OpsOf(c, "mutex_unlock") : i < j
    /\ \A i \in 1..Len(console) : \A c \in ConsoleWriter(i) : Emitted(c)
    /\ \A h \in Handles : \A i \in 1..Len(file[h]) :
          \A c \in FileWriter(h, i) : Emitted(c)
    /\ \A t \in Threads :
          /\ pc[t] \in ReadsOfQuietAndFp => mutex = t
          /\ pc[t] \in {"idle", "clock", "acquire"} => mutex # t

\* A call passed the check, the threshold was raised above its level before
\* it acquired the mutex, and it has written its line to stderr and to a file.
C16_Witness ==
    \E c \in CallIds :
        /\ Emitted(c) /\ RaisedBeforeAcquire(c) /\ Returned(c)
        /\ Cardinality(ConsoleWrites(c)) = 2
        /\ Cardinality(FileWrites(c)) = 2

\* ---------------------------------------------------------------- C17
\* One printed stamp is not later than another: by date, then by time.
HmsNotAfter(a, b) ==
    \/ a[1] < b[1]
    \/ a[1] = b[1] /\ a[2] < b[2]
    \/ a[1] = b[1] /\ a[2] = b[2] /\ a[3] <= b[3]
StampNotAfter(v, w) ==
    v.date < w.date \/ (v.date = w.date /\ HmsNotAfter(v.hms, w.hms))

\* C17: a call reads time() once, between acquiring and releasing the
\* mutex, and the high-resolution clock once, before acquiring it. Every
\* line prefix prints that time() reading (as time of day on stderr, as date
\* and time of day in a file) and that clock reading as ts, so the stderr
\* line and the file line of one call carry the same second and the same ts.
\* Of two lines of a sink the later one has the later or equal time()
\* reading, and in a file the later or equal printed date and time.
C17_StampsInOrder ==
    /\ \A c \in CallIds :
          /\ Cardinality(OpsOf(c, "time")) <= 1
          /\ Cardinality(OpsOf(c, "clock")) <= 1
          /\ \A i \in OpsOf(c, "time") :
                /\ \E j \in OpsOf(c, "mutex_lock") : j < i
                /\ \A j \in OpsOf(c, "mutex_unlock") : i < j
          /\ \A i \in OpsOf(c, "clock") : \A j \in OpsOf(c, "mutex_lock") : i < j
          /\ \A i \in ConsoleWrites(c) :
                console[i].kind = "prefix" =>
                    /\ {console[i].hms} = {HMS(s) : s \in TimeOf(c)}
                    /\ {console[i].ts} = {TsConsole(ns) : ns \in ClockOf(c)}
          /\ \A w \in FileWrites(c) :
                file[w[1]][w[2]].kind = "prefix" =>
                    /\ {file[w[1]][w[2]].hms} = {HMS(s) : s \in TimeOf(c)}
                    /\ {file[w[1]][w[2]].date} = {YMD(s) : s \in TimeOf(c)}
                    /\ {file[w[1]][w[2]].ts} = {TsFile(ns) : ns \in ClockOf(c)}
                    /\ \A i \in ConsoleWrites(c) :
                          console[i].kind = "prefix" =>
                              /\ console[i].hms = file[w[1]][w[2]].hms
                              /\ console[i].ts = file[w[1]][w[2]].ts
    /\ \A i, j \in 1..Len(console) :
          (i < j /\ console[i].kind = "prefix" /\ console[j].kind = "prefix") =>
              \A c \in ConsoleWriter(i) : \A d \in ConsoleWriter(j) :
                  \A s \in TimeOf(c) : \A u \in TimeOf(d) : s <= u
    /\ \A h \in Handles : \A i, j \in 1..Len(file[h]) :
          (i < j /\ file[h][i].kind = "prefix" /\ file[h][j].kind = "prefix") =>
              /\ StampNotAfter(file[h][i], file[h][j])
              /\ \A c \in FileWriter(h, i) : \A d \in FileWriter(h, j) :
                    \A s \in TimeOf(c) : \A u \in TimeOf(d) : s <= u
    /\ \A t \in Threads : pc[t] = "time" => mutex = t

\* Two calls have written their lines to stderr and to one file; the one
\* that read the clock first acquired the mutex last, and midnight passed
\* between their time() readings.
C17_Witness ==
    /\ Len(calls) = 2 /\ Returned(1) /\ Returned(2)
    /\ \E h \in Handles : WroteBoth(h, 1) /\ WroteBoth(h, 2) /\ Len(file[h]) = 4
                          /\ file[h][1].date < file[h][3].date
    /\ AcquiredBefore(2, 1)
    /\ \A a \in ClockOf(1) : \A b \in ClockOf(2) : a < b

====
